---- MODULE Spec2Model ----
(***************************************************************************)
(* Model of the retail dashboard of src/sales.py: one run of main() over   *)
(* an uploaded spreadsheet: load_uploaded_data (read, validate_dataset,    *)
(* date conversion), then show_analysis (filters, calculate_kpis, charts,  *)
(* create_sales_forecast, insights, export).                               *)
(*                                                                         *)
(* A table is [columns, rows]; a row maps each column of its table to a    *)
(* cell.  A cell is [k, v]: k = "num" (number v), "ts" (a datetime, v in   *)
(* ticks, TicksPerDay ticks to a calendar day), "datestr" (a string that   *)
(* pd.to_datetime parses to timestamp v), "text" (any other string, v its  *)
(* rank in lexicographic order), "null" (NaN / NaT / blank cell).          *)
(* Money is in integer units (cents); a quotient is kept exact as [n, d];  *)
(* floating point rounding is not modelled.                                *)
(***************************************************************************)
EXTENDS Integers, Sequences, FiniteSets, TLC

VARIABLES pc, uploaded_file, df, validation, errors, exception, stages,
          PROPHET_AVAILABLE, PLOTLY_AVAILABLE,
          date_range, categories, filtered_df, kpis,
          view_type, product_analysis, top_products,
          forecast, insights, export

vars == <<pc, uploaded_file, df, validation, errors, exception, stages,
          PROPHET_AVAILABLE, PLOTLY_AVAILABLE,
          date_range, categories, filtered_df, kpis,
          view_type, product_analysis, top_products,
          forecast, insights, export>>

(***************************************************************************)
(* Bounds of the model.                                                    *)
(***************************************************************************)
\* longest uploaded table drawn from RowPool
MaxRows == 2
\* calendar days 1..MaxDate
MaxDate == 2
\* timestamps per calendar day (time of day)
TicksPerDay == 2
\* rows appended to the 19-product base table of the product ranking inputs
MaxExtra == 2

(***************************************************************************)
(* Cells.                                                                  *)
(***************************************************************************)
Num(n) == [k |-> "num", v |-> n]
Ts(t) == [k |-> "ts", v |-> t]
DateStr(t) == [k |-> "datestr", v |-> t]
Text(i) == [k |-> "text", v |-> i]
Null == [k |-> "null", v |-> 0]

\* the category strings of the inputs; a "text" cell holds the rank of its
\* string in the (lexicographic) order pandas sorts group keys in
TextNames == <<"Furniture", "Technology", "n/a">>
Furniture == Text(1)
Technology == Text(2)
Garbage == Text(3)
\* the i-th product name, in lexicographic order
Product(i) == Text(i)

IsNull(c) == c.k = "null"

\* Timestamp.date() / Series.dt.date: the calendar day of a timestamp
DateOf(t) == t \div TicksPerDay

(***************************************************************************)
(* Exact quotients.  NaN is what pandas/numpy give for 0/0 and for the     *)
(* mean of no values.                                                      *)
(***************************************************************************)
Rat(a, b) == [n |-> a, d |-> b]
NaN == [n |-> 0, d |-> 0]
IsNaN(q) == q.d = 0
RatEq(p, q) == ~IsNaN(p) /\ ~IsNaN(q) /\ p.n * q.d = q.n * p.d

(***************************************************************************)
(* Sequence helpers.                                                       *)
(***************************************************************************)
Range(s) == {s[i] : i \in DOMAIN s}

RECURSIVE SeqsUpTo(_, _)
SeqsUpTo(S, n) ==
    IF n = 0 THEN {<<>>}
    ELSE LET shorter == SeqsUpTo(S, n - 1)
         IN shorter \cup {Append(s, x) : s \in {t \in shorter : Len(t) = n - 1}, x \in S}

\* sep.join(names), as the list of the pieces of the resulting string
RECURSIVE Join(_, _)
Join(names, sep) ==
    IF names = <<>> THEN <<>>
    ELSE IF Len(names) = 1 THEN names
    ELSE <<Head(names), sep>> \o Join(Tail(names), sep)

(***************************************************************************)
(* Tables.                                                                 *)
(***************************************************************************)
REQUIRED_COLUMNS ==
    <<"Order Date", "Ship Date", "Category", "Sub-Category",
      "Product Name", "Sales", "Discount", "Profit", "Quantity">>

Required == Range(REQUIRED_COLUMNS)

\* a column that is not required (Global Superstore has many)
ExtraColumn == "Region"

NoTable == [none |-> TRUE, columns |-> {}, rows |-> <<>>]
Table(cols, rows) == [none |-> FALSE, columns |-> cols, rows |-> rows]

\* df[col]: the cells of a column, in row order
Column(t, col) == [i \in DOMAIN t.rows |-> t.rows[i][col]]

\* a full row of the sheet
Row(od, cat, prod, sales, disc, profit) ==
    [c \in Required \cup {ExtraColumn} |->
        CASE c = "Order Date" -> od
          [] c = "Ship Date" -> od
          [] c = "Category" -> cat
          [] c = "Sub-Category" -> cat
          [] c = "Product Name" -> prod
          [] c = "Sales" -> sales
          [] c = "Discount" -> disc
          [] c = "Profit" -> profit
          [] c = "Quantity" -> Num(1)
          [] OTHER -> Text(1)]

\* the sheet as read: only the columns the file has
Sheet(cols, fullRows) ==
    Table(cols, [i \in DOMAIN fullRows |-> [c \in cols |-> fullRows[i][c]]])

(***************************************************************************)
(* Inputs: the rows a sheet is drawn from.                                 *)
(***************************************************************************)
\* midnight of every day, and a time late on the last day
Timestamps == {d * TicksPerDay : d \in 1 .. MaxDate} \cup {(MaxDate + 1) * TicksPerDay - 1}
FirstTs == TicksPerDay
LastTs == (MaxDate + 1) * TicksPerDay - 1

\* rows that differ in order date (with time of day, or blank) and category
DateRows ==
    {Row(od, Furniture, Product(1), Num(3), Num(0), Num(2)) :
        od \in {Ts(t) : t \in Timestamps} \cup {Null}}
    \cup {Row(Ts(FirstTs), Technology, Product(1), Num(3), Num(0), Num(2))}

\* rows with a blank category
BlankCategoryRows ==
    {Row(Ts(t), Null, Product(1), Num(3), Num(0), Num(2)) : t \in {FirstTs, LastTs}}

\* rows that differ in the amounts (negative, zero, blank)
MoneyRows ==
    {Row(Ts(FirstTs), Furniture, Product(2), sales, Num(30), Num(2)) :
        sales \in {Num(-1), Num(0), Num(3), Null}}
    \cup {Row(Ts(FirstTs), Furniture, Product(2), sales, Num(30), Num(-1)) :
        sales \in {Num(0), Num(3)}}

\* a date held as a string, a date that does not parse, an amount that is text
OddRows ==
    {Row(DateStr(FirstTs), Technology, Product(1), Num(3), Num(0), Num(2)),
     Row(Garbage, Furniture, Product(1), Num(3), Num(0), Num(2)),
     Row(Ts(FirstTs), Furniture, Product(1), Garbage, Num(0), Num(2))}

RowPool == DateRows \cup BlankCategoryRows \cup MoneyRows \cup OddRows

\* sheets with every required column: any rows
FullSheets == {Sheet(Required, rows) : rows \in SeqsUpTo(RowPool, MaxRows)}

\* sheets of any column set: a few contents
PartialSheets ==
    {Sheet(cols, rows) :
        cols \in SUBSET (Required \cup {ExtraColumn}),
        rows \in SeqsUpTo(OddRows, 1)}

NoFile == [kind |-> "none", table |-> NoTable]
Unreadable == [kind |-> "unreadable", table |-> NoTable]
Xlsx(t) == [kind |-> "xlsx", table |-> t]

Files == {NoFile, Unreadable} \cup {Xlsx(t) : t \in FullSheets \cup PartialSheets}

(***************************************************************************)
(* validate_dataset                                                        *)
(***************************************************************************)
\* pd.to_datetime(series) raises on a string that is no date
Parseable(cells) == \A i \in DOMAIN cells : cells[i].k # "text"

ToDatetimeCell(c) ==
    CASE c.k = "ts" -> c
      [] c.k = "datestr" -> Ts(c.v)
      [] c.k = "num" -> Ts(c.v)
      [] OTHER -> Null

\* df[col] = pd.to_datetime(df[col]), for a column that parses
ConvertColumn(t, col) ==
    [t EXCEPT !.rows = [i \in DOMAIN t.rows |->
        [t.rows[i] EXCEPT ![col] = ToDatetimeCell(t.rows[i][col])]]]

\* pd.api.types.is_numeric_dtype(series): the column was read as int or float;
\* a column with a string in it, and a column of a sheet without data rows, is
\* of dtype object
is_numeric_dtype(cells) ==
    /\ Len(cells) > 0
    /\ \A i \in DOMAIN cells : cells[i].k \in {"num", "null"}

\* a validator that reports the required columns the sheet does have
missing_columns_present(t) == SelectSeq(REQUIRED_COLUMNS, LAMBDA col : col \in t.columns)

missing_columns(t) == SelectSeq(REQUIRED_COLUMNS, LAMBDA col : col \notin t.columns)

numeric_columns == <<"Sales", "Discount", "Profit", "Quantity">>

\* the first column of numeric_columns that is not numeric (0: none)
FirstNonNumeric(t) ==
    LET bad == {i \in DOMAIN numeric_columns :
                   ~is_numeric_dtype(Column(t, numeric_columns[i]))}
    IN IF bad = {} THEN 0 ELSE CHOOSE i \in bad : \A j \in bad : i <= j

validate_dataset(t) ==
    IF missing_columns(t) # <<>>
    THEN [ok |-> FALSE,
          message |-> <<"Missing required columns: ">> \o Join(missing_columns(t), ", ")]
    ELSE IF ~(Parseable(Column(t, "Order Date")) /\ Parseable(Column(t, "Ship Date")))
    THEN [ok |-> FALSE,
          message |-> <<"Order Date and Ship Date must be valid date formats">>]
    ELSE IF FirstNonNumeric(t) # 0
    THEN [ok |-> FALSE,
          message |-> <<"Column '", numeric_columns[FirstNonNumeric(t)],
                        "' must contain numeric values">>]
    ELSE [ok |-> TRUE, message |-> <<"Dataset validation successful">>]

NotValidated == [ok |-> FALSE, message |-> <<>>]

(***************************************************************************)
(* load_uploaded_data                                                      *)
(***************************************************************************)
\* the non-null timestamps of a datetime column
Stamps(cells) == {cells[i].v : i \in {j \in DOMAIN cells : cells[j].k = "ts"}}
MinOf(S) == CHOOSE x \in S : \A y \in S : x <= y
MaxOf(S) == CHOOSE x \in S : \A y \in S : x >= y

\* a loader that returns the table whatever validate_dataset said
load_unvalidated(file) ==
    IF file.kind = "xlsx" /\ missing_columns(file.table) = <<>>
       /\ Parseable(Column(file.table, "Order Date"))
       /\ Parseable(Column(file.table, "Ship Date"))
       /\ Stamps(Column(ConvertColumn(file.table, "Order Date"), "Order Date")) # {}
    THEN [df |-> ConvertColumn(ConvertColumn(file.table, "Order Date"), "Ship Date"),
          validation |-> validate_dataset(file.table), errors |-> {}]
    ELSE [df |-> NoTable, validation |-> validate_dataset(file.table),
          errors |-> {"Dataset validation failed"}]

\* the result of load_uploaded_data, with the validation it ran and the
\* st.error messages it showed
load_uploaded_data(file) ==
    IF file.kind = "none"
    THEN [df |-> NoTable, validation |-> NotValidated, errors |-> {}]
    ELSE IF file.kind = "unreadable"
    THEN [df |-> NoTable, validation |-> NotValidated,
          errors |-> {"Error reading file"}]
    ELSE LET v == validate_dataset(file.table)
         IN IF ~v.ok
            THEN [df |-> NoTable, validation |-> v,
                  errors |-> {"Dataset validation failed"}]
            ELSE IF ~(Parseable(Column(file.table, "Order Date"))
                      /\ Parseable(Column(file.table, "Ship Date")))
            THEN [df |-> NoTable, validation |-> v,
                  errors |-> {"Error converting dates"}]
            ELSE LET converted ==
                         ConvertColumn(ConvertColumn(file.table, "Order Date"), "Ship Date")
                 IN \* df['Order Date'].min() is NaT when no row has an order
                    \* date, and NaT.strftime raises inside the same try
                    IF Stamps(Column(converted, "Order Date")) = {}
                    THEN [df |-> NoTable, validation |-> v,
                          errors |-> {"Error converting dates"}]
                    ELSE [df |-> converted, validation |-> v, errors |-> {}]

(***************************************************************************)
(* Aggregation helpers (pandas).                                           *)
(***************************************************************************)
\* Series.sum(): blank cells are skipped, the sum of nothing is 0
RECURSIVE SumCells(_)
SumCells(cells) ==
    IF cells = <<>> THEN 0
    ELSE (IF Head(cells).k = "num" THEN Head(cells).v ELSE 0) + SumCells(Tail(cells))

\* Series.count(): the cells that are not blank
CountCells(cells) == Cardinality({i \in DOMAIN cells : ~IsNull(cells[i])})

\* Series.mean(): blank cells are skipped, the mean of nothing is NaN
MeanCells(cells) ==
    IF CountCells(cells) = 0 THEN NaN ELSE Rat(SumCells(cells), CountCells(cells))

\* the distinct non-blank keys of a column in ascending order (groupby sorts
\* its keys and drops blank ones)
RECURSIVE SortedKeys(_)
SortedKeys(S) ==
    IF S = {} THEN <<>>
    ELSE LET m == CHOOSE x \in S : \A y \in S : x.v <= y.v
         IN <<m>> \o SortedKeys(S \ {m})

GroupKeys(rows, keycol) ==
    SortedKeys({rows[i][keycol] : i \in {j \in DOMAIN rows : ~IsNull(rows[j][keycol])}})

\* df.groupby(keycol)[valcol].sum().reset_index()
GroupBySum(rows, keycol, valcol) ==
    LET keys == GroupKeys(rows, keycol)
    IN [g \in DOMAIN keys |->
           [key |-> keys[g],
            value |-> SumCells(Column([rows |-> SelectSeq(rows,
                                          LAMBDA r : r[keycol] = keys[g])], valcol))]]

\* the sequence without its i-th element
RemoveAt(s, i) == SubSeq(s, 1, i - 1) \o SubSeq(s, i + 1, Len(s))

\* DataFrame.nsmallest(n, 'Profit'), keep='first'
RECURSIVE nsmallest(_, _)
nsmallest(n, frame) ==
    IF n = 0 \/ frame = <<>> THEN <<>>
    ELSE LET i == CHOOSE a \in DOMAIN frame :
                      /\ \A b \in DOMAIN frame : frame[a].value <= frame[b].value
                      /\ \A b \in 1 .. (a - 1) : frame[b].value # frame[a].value
         IN <<frame[i]>> \o nsmallest(n - 1, RemoveAt(frame, i))

\* a ranking whose "top" branch calls nsmallest as well
nlargest_ascending(n, frame) == nsmallest(n, frame)

\* DataFrame.nlargest(n, 'Profit'), keep='first': the n largest values in
\* descending order, equal values in their order in the frame
RECURSIVE nlargest(_, _)
nlargest(n, frame) ==
    IF n = 0 \/ frame = <<>> THEN <<>>
    ELSE LET i == CHOOSE a \in DOMAIN frame :
                      /\ \A b \in DOMAIN frame : frame[a].value >= frame[b].value
                      /\ \A b \in 1 .. (a - 1) : frame[b].value # frame[a].value
         IN <<frame[i]>> \o nlargest(n - 1, RemoveAt(frame, i))

\* Series.idxmax() of a grouped sum: the first key with the largest value
idxmax(frame) ==
    LET i == CHOOSE a \in DOMAIN frame :
                 /\ \A b \in DOMAIN frame : frame[a].value >= frame[b].value
                 /\ \A b \in 1 .. (a - 1) : frame[b].value # frame[a].value
    IN frame[i].key

(***************************************************************************)
(* calculate_kpis                                                          *)
(***************************************************************************)
calculate_kpis(t) ==
    LET total_sales == SumCells(Column(t, "Sales"))
        total_profit == SumCells(Column(t, "Profit"))
    IN [total_sales |-> total_sales,
        total_profit |-> total_profit,
        profit_margin |-> IF total_sales > 0 THEN Rat(total_profit * 100, total_sales)
                                             ELSE Rat(0, 1),
        avg_order_value |-> MeanCells(Column(t, "Sales")),
        total_orders |-> Len(t.rows)]

NoKpis == [total_sales |-> 0, total_profit |-> 0, profit_margin |-> NaN,
           avg_order_value |-> NaN, total_orders |-> 0]

(***************************************************************************)
(* show_analysis: the pieces of each step                                  *)
(***************************************************************************)
\* df['Category'].unique(): the distinct cells, a blank one (NaN) among them
Unique(cells) == Range(cells)

\* what st.sidebar.date_input can return for a range within [lo, hi]: the two
\* dates, or a shorter tuple while the user is still picking
DateInputs(lo, hi) ==
    {p \in (lo .. hi) \X (lo .. hi) : p[1] <= p[2]}
        \cup {<<s>> : s \in lo .. hi} \cup {<<>>}

\* a mask that compares the order timestamp, not its calendar day, with the
\* end of the range
KeepByTimestamp(r, range, cats) ==
    /\ r["Order Date"].k = "ts"
    /\ DateOf(r["Order Date"].v) >= range[1]
    /\ r["Order Date"].v <= range[2] * TicksPerDay
    /\ r["Category"] \in cats

\* the boolean mask of lines 305-309 for one row: a blank order date
\* compares False, isin matches a blank category when NaN is selected
Keep(r, range, cats) ==
    /\ r["Order Date"].k = "ts"
    /\ DateOf(r["Order Date"].v) >= range[1]
    /\ DateOf(r["Order Date"].v) <= range[2]
    /\ r["Category"] \in cats

\* filtered_df = df[mask]
Filter(t, range, cats) ==
    Table(t.columns, SelectSeq(t.rows, LAMBDA r : Keep(r, range, cats)))

TopN == 10

\* line 557
negative_profit_pct(t) ==
    LET neg == Cardinality({i \in DOMAIN t.rows :
                   t.rows[i]["Profit"].k = "num" /\ t.rows[i]["Profit"].v < 0})
    IN IF Len(t.rows) = 0 THEN NaN ELSE Rat(neg * 100, Len(t.rows))

NoForecast == [status |-> "none", sales_data |-> <<>>]
NoInsights == [avg_discount |-> NaN, negative_profit_pct |-> NaN, best_category |-> Null,
               computed |-> FALSE]
NoExport == [raw_view |-> <<>>, csv |-> <<>>, offered |-> FALSE]

\* the orders sort_values('Order Date', ascending=False) can give: descending,
\* rows of equal order date in either order (the default sort is not stable)
SortedDescending(rows) ==
    LET n == Len(rows)
        perms == {f \in [1 .. n -> 1 .. n] : \A i, j \in 1 .. n : i # j => f[i] # f[j]}
    IN {[i \in 1 .. n |-> rows[f[i]]] :
           f \in {g \in perms : \A i \in 1 .. (n - 1) :
                      rows[g[i]]["Order Date"].v >= rows[g[i + 1]]["Order Date"].v}}

(***************************************************************************)
(* The run of main()                                                       *)
(***************************************************************************)
Init ==
    /\ pc = "start"
    /\ uploaded_file = NoFile
    /\ df = NoTable
    /\ validation = NotValidated
    /\ errors = {}
    /\ exception = "none"
    /\ stages = <<>>
    /\ PROPHET_AVAILABLE \in BOOLEAN
    /\ PLOTLY_AVAILABLE \in BOOLEAN
    /\ date_range = <<>>
    /\ categories = {}
    /\ filtered_df = NoTable
    /\ kpis = NoKpis
    /\ view_type = "none"
    /\ product_analysis = <<>>
    /\ top_products = <<>>
    /\ forecast = NoForecast
    /\ insights = NoInsights
    /\ export = NoExport

\* create_file_upload_component: the uploader returns a file or None
Upload ==
    /\ pc = "start"
    /\ \E f \in Files : uploaded_file' = f
    /\ pc' = IF uploaded_file'.kind = "none" THEN "done" ELSE "uploaded"
    /\ UNCHANGED <<df, validation, errors, exception, stages, PROPHET_AVAILABLE,
                   PLOTLY_AVAILABLE, date_range, categories, filtered_df, kpis,
                   view_type, product_analysis, top_products, forecast, insights, export>>

\* main, lines 225-232: load the file, then show the analysis or an error
Load ==
    /\ pc = "uploaded"
    /\ LET r == load_uploaded_data(uploaded_file)
       IN /\ df' = r.df
          /\ validation' = r.validation
          /\ IF ~r.df.none /\ r.df.rows # <<>>
             THEN /\ errors' = r.errors
                  /\ pc' = "analysis"
             ELSE /\ errors' = r.errors \cup {"Please upload a valid dataset to see the analysis."}
                  /\ pc' = "done"
    /\ UNCHANGED <<uploaded_file, exception, stages, PROPHET_AVAILABLE,
                   PLOTLY_AVAILABLE, date_range, categories, filtered_df, kpis,
                   view_type, product_analysis, top_products, forecast, insights, export>>

\* show_analysis, lines 257-309: the dates again, the sidebar widgets, the mask
FilterData ==
    /\ pc = "analysis"
    /\ df' = ConvertColumn(ConvertColumn(df, "Order Date"), "Ship Date")
    /\ LET stamps == Stamps(Column(df', "Order Date"))
           min_date == DateOf(MinOf(stamps))
           max_date == DateOf(MaxOf(stamps))
       IN \E range \in DateInputs(min_date, max_date),
             cats \in SUBSET Unique(Column(df', "Category")) :
            /\ date_range' = range
            /\ categories' = cats
            /\ IF Len(range) < 2
               THEN /\ exception' = "IndexError"
                    /\ pc' = "crashed"
                    /\ UNCHANGED <<filtered_df, stages>>
               ELSE /\ filtered_df' = Filter(df', range, cats)
                    /\ stages' = Append(stages, "filter")
                    /\ pc' = "kpis"
                    /\ UNCHANGED exception
    /\ UNCHANGED <<uploaded_file, validation, errors, PROPHET_AVAILABLE,
                   PLOTLY_AVAILABLE, kpis, view_type, product_analysis, top_products,
                   forecast, insights, export>>

\* lines 311-351
Kpis ==
    /\ pc = "kpis"
    /\ kpis' = calculate_kpis(filtered_df)
    /\ stages' = Append(stages, "kpis")
    /\ pc' = "charts"
    /\ UNCHANGED <<uploaded_file, df, validation, errors, exception, PROPHET_AVAILABLE,
                   PLOTLY_AVAILABLE, date_range, categories, filtered_df,
                   view_type, product_analysis, top_products, forecast, insights, export>>

\* lines 355-448: the aggregates and their charts; without plotly the first
\* chart falls back to a table and the second one uses the name px, which the
\* failed import never bound
Charts ==
    /\ pc = "charts"
    /\ IF ~PLOTLY_AVAILABLE
       THEN /\ errors' = errors \cup {"Plotly not available. Charts disabled."}
            /\ exception' = "NameError"
            /\ pc' = "crashed"
            /\ UNCHANGED <<view_type, product_analysis, top_products, stages>>
       ELSE \E view \in {"Top 10 Profitable", "Bottom 10 Products"} :
            /\ view_type' = view
            /\ product_analysis' = GroupBySum(filtered_df.rows, "Product Name", "Profit")
            /\ top_products' = IF view = "Top 10 Profitable"
                               THEN nlargest(TopN, product_analysis')
                               ELSE nsmallest(TopN, product_analysis')
            /\ stages' = Append(stages, "charts")
            /\ pc' = "forecast"
            /\ UNCHANGED <<errors, exception>>
    /\ UNCHANGED <<uploaded_file, df, validation, PROPHET_AVAILABLE,
                   PLOTLY_AVAILABLE, date_range, categories, filtered_df, kpis,
                   forecast, insights, export>>

\* lines 450-537 with create_sales_forecast: without prophet the adapter
\* returns (None, None), which line 472 subscripts; Prophet.fit raises on
\* fewer than two rows and may fail otherwise; nothing catches either
Forecast ==
    /\ pc = "forecast"
    /\ IF ~PROPHET_AVAILABLE
       THEN /\ errors' = errors \cup {"Prophet is not available. Forecasting disabled."}
            /\ forecast' = [status |-> "unavailable", sales_data |-> <<>>]
            /\ exception' = "TypeError"
            /\ pc' = "crashed"
            /\ UNCHANGED stages
       ELSE LET sales_data == GroupBySum(filtered_df.rows, "Order Date", "Sales")
            IN \E fit_ok \in BOOLEAN :
                 IF Len(sales_data) < 2 \/ ~fit_ok
                 THEN /\ forecast' = [status |-> "failed", sales_data |-> sales_data]
                      /\ exception' = "ProphetError"
                      /\ pc' = "crashed"
                      /\ UNCHANGED <<errors, stages>>
                 ELSE /\ forecast' = [status |-> "ok", sales_data |-> sales_data]
                      /\ stages' = Append(stages, "forecast")
                      /\ pc' = "insights"
                      /\ UNCHANGED <<errors, exception>>
    /\ UNCHANGED <<uploaded_file, df, validation, PROPHET_AVAILABLE,
                   PLOTLY_AVAILABLE, date_range, categories, filtered_df, kpis,
                   view_type, product_analysis, top_products, insights, export>>

\* lines 539-567: idxmax of an empty grouped sum raises ValueError
Insights ==
    /\ pc = "insights"
    /\ LET category_profit == GroupBySum(filtered_df.rows, "Category", "Profit")
       IN /\ insights' = [avg_discount |-> MeanCells(Column(filtered_df, "Discount")),
                          negative_profit_pct |-> negative_profit_pct(filtered_df),
                          best_category |-> IF category_profit = <<>> THEN Null
                                            ELSE idxmax(category_profit),
                          computed |-> TRUE]
          /\ IF category_profit = <<>>
             THEN /\ exception' = "ValueError"
                  /\ pc' = "crashed"
                  /\ UNCHANGED stages
             ELSE /\ stages' = Append(stages, "insights")
                  /\ pc' = "export"
                  /\ UNCHANGED exception
    /\ UNCHANGED <<uploaded_file, df, validation, errors, PROPHET_AVAILABLE,
                   PLOTLY_AVAILABLE, date_range, categories, filtered_df, kpis,
                   view_type, product_analysis, top_products, forecast, export>>

\* lines 569-588: the sorted raw-data view, the CSV download, the final status
Export ==
    /\ pc = "export"
    /\ \E view \in SortedDescending(filtered_df.rows) :
         export' = [raw_view |-> view, csv |-> filtered_df.rows, offered |-> TRUE]
    /\ stages' = stages \o <<"export", "complete">>
    /\ pc' = "done"
    /\ UNCHANGED <<uploaded_file, df, validation, errors, exception, PROPHET_AVAILABLE,
                   PLOTLY_AVAILABLE, date_range, categories, filtered_df, kpis,
                   view_type, product_analysis, top_products, forecast, insights>>

Next == Upload \/ Load \/ FilterData \/ Kpis \/ Charts \/ Forecast \/ Insights \/ Export

Spec == Init /\ [][Next]_vars

(***************************************************************************)
(* Properties                                                              *)
(***************************************************************************)
Loaded == pc \notin {"start", "uploaded"} /\ uploaded_file.kind = "xlsx"
Did(stage) == \E i \in DOMAIN stages : stages[i] = stage
IndexOf(col) == CHOOSE i \in DOMAIN REQUIRED_COLUMNS : REQUIRED_COLUMNS[i] = col

\* C1: for a sheet that lacks a required column, validate_dataset answers
\* False and its message is 'Missing required columns: ' followed by exactly
\* the missing names, in the order of REQUIRED_COLUMNS, joined by ', ',
\* whatever the cells of the sheet hold.
C1_MissingColumnsMessage ==
    (Loaded /\ ~(Required \subseteq uploaded_file.table.columns)) =>
        LET m == validation.message
            names == [i \in 1 .. (Len(m) \div 2) |-> m[2 * i]]
        IN /\ validation.ok = FALSE
           /\ Len(m) >= 2 /\ Len(m) % 2 = 0
           /\ m[1] = "Missing required columns: "
           /\ \A i \in 2 .. (Len(m) \div 2) : m[2 * i - 1] = ", "
           /\ Range(names) = Required \ uploaded_file.table.columns
           /\ \A i \in 1 .. (Len(names) - 1) : IndexOf(names[i]) < IndexOf(names[i + 1])

\* a sheet with data rows that lacks two columns, neither first nor adjacent
C1_Witness ==
    /\ Loaded
    /\ Required \ uploaded_file.table.columns = {"Ship Date", "Profit"}
    /\ uploaded_file.table.rows # <<>>
    /\ validation.message =
           <<"Missing required columns: ", "Ship Date", ", ", "Profit">>

\* C2: show_analysis is entered only after validate_dataset answered True and
\* both date columns were converted; after a validation failure or a date
\* conversion failure load_uploaded_data returns None, an error is shown and
\* no stage of the analysis runs.
C2_AnalysisOnlyAfterValidation ==
    /\ (pc \in {"analysis", "kpis", "charts", "forecast", "insights", "export", "crashed"}
            \/ stages # <<>>)
        => /\ validation.ok
           /\ ~df.none
           /\ \A i \in DOMAIN df.rows :
                 /\ df.rows[i]["Order Date"].k \in {"ts", "null"}
                 /\ df.rows[i]["Ship Date"].k \in {"ts", "null"}
    /\ (Loaded /\ (~validation.ok \/ "Error converting dates" \in errors))
        => /\ df.none
           /\ errors # {}
           /\ stages = <<>>
           /\ pc = "done"
           /\ filtered_df = NoTable /\ kpis = NoKpis /\ product_analysis = <<>>

\* a readable sheet with every column and a non-numeric amount is turned away
C2_Witness ==
    /\ pc = "done"
    /\ uploaded_file.kind = "xlsx"
    /\ Required \subseteq uploaded_file.table.columns
    /\ ~validation.ok
    /\ "Dataset validation failed" \in errors
    /\ stages = <<>>

\* the i-th smallest element of a set of numbers
Nth(K, i) == CHOOSE j \in K : Cardinality({k \in K : k <= j}) = i

\* C3: the filtered table is exactly the rows of the source whose order date's
\* calendar day lies in [start, end] and whose category is selected, in source
\* order, and building it leaves the source rows as they were.
C3_FilterIsSubsequence ==
    [][(pc = "analysis" /\ pc' = "kpis") =>
         LET K == {j \in DOMAIN df.rows :
                     /\ df.rows[j]["Order Date"].k = "ts"
                     /\ date_range'[1] <= DateOf(df.rows[j]["Order Date"].v)
                     /\ DateOf(df.rows[j]["Order Date"].v) <= date_range'[2]
                     /\ df.rows[j]["Category"] \in categories'}
         IN /\ df'.rows = df.rows
            /\ Len(filtered_df'.rows) = Cardinality(K)
            /\ \A i \in 1 .. Cardinality(K) : filtered_df'.rows[i] = df.rows[Nth(K, i)]]_vars

\* a filter that keeps a row late on the last day of the range and drops another
C3_Witness ==
    /\ pc = "kpis"
    /\ Len(df.rows) = 2
    /\ Len(filtered_df.rows) = 1
    /\ filtered_df.rows[1] = df.rows[2]
    /\ filtered_df.rows[1]["Order Date"].v % TicksPerDay # 0

\* C4: calculate_kpis returns profit_margin = total_profit / total_sales * 100
\* whenever total_sales is not zero, and 0 when total_sales is zero.
C4_ProfitMargin ==
    Did("kpis") =>
        /\ kpis.total_sales # 0 =>
               RatEq(kpis.profit_margin, Rat(kpis.total_profit * 100, kpis.total_sales))
        /\ kpis.total_sales = 0 => RatEq(kpis.profit_margin, Rat(0, 1))

\* C5: for a table with rows, calculate_kpis returns the sum of Sales, the sum
\* of Profit, the number of rows, and avg_order_value = total_sales /
\* total_orders, and leaves the table as it was.
C5_KpiTotals ==
    (Did("kpis") /\ filtered_df.rows # <<>>) =>
        /\ kpis.total_sales = SumCells(Column(filtered_df, "Sales"))
        /\ kpis.total_profit = SumCells(Column(filtered_df, "Profit"))
        /\ kpis.total_orders = Len(filtered_df.rows)
        /\ RatEq(kpis.avg_order_value, Rat(kpis.total_sales, kpis.total_orders))

\* C6: with the default criteria (the full date range of the dataset and all
\* its categories) the filtered table equals the dataset row for row.
C6_DefaultFilterIsIdentity ==
    (/\ Did("filter")
     /\ date_range = <<DateOf(MinOf(Stamps(Column(df, "Order Date")))),
                       DateOf(MaxOf(Stamps(Column(df, "Order Date"))))>>
     /\ categories = Range(Column(df, "Category")))
        => filtered_df.rows = df.rows

\* C7: when the criteria select no row the pass still runs to completion (here
\* even with plotly and prophet both importable): no unhandled exception.
C7_EmptyResultCompletes ==
    (/\ Did("filter") /\ filtered_df.rows = <<>>
     /\ PLOTLY_AVAILABLE /\ PROPHET_AVAILABLE)
        => exception = "none"

\* C8: every ratio the pipeline computes yields 0 on a zero denominator and is
\* never undefined: the profit margin (over total_sales), the average order
\* value (over the row count), the negative-profit percentage (over the row
\* count).
C8_DivisionGuard ==
    /\ Did("kpis") =>
           /\ kpis.total_sales = 0 => RatEq(kpis.profit_margin, Rat(0, 1))
           /\ kpis.total_orders = 0 => RatEq(kpis.avg_order_value, Rat(0, 1))
    /\ insights.computed =>
           /\ ~IsNaN(insights.negative_profit_pct)
           /\ filtered_df.rows = <<>> => RatEq(insights.negative_profit_pct, Rat(0, 1))

\* C9: when forecasting is unavailable or the fit fails, only the forecast
\* panel is left out: no unhandled exception leaves the analysis pass.
C9_ForecastDegrades ==
    forecast.status \in {"unavailable", "failed"} => exception = "none"

(***************************************************************************)
(* The product ranking (lines 421-436) on tables of twenty products and    *)
(* more: the state show_analysis is in before the charts, for a sheet of   *)
(* one day and one category filtered with the default criteria.            *)
(***************************************************************************)
NBase == 2 * TopN - 1

\* distinct profits -(TopN-1) .. TopN-1, not in product order
BaseProfit(p) == ((p * 7) % NBase) - (TopN - 1)

RankingRow(p, profit) == Row(Ts(FirstTs), Furniture, Product(p), Num(3), Num(0), Num(profit))

BaseRows == [p \in 1 .. NBase |-> RankingRow(p, BaseProfit(p))]

\* the products further rows are about: new ones, and the base products whose
\* profit is at the middle or at an end of the ranking
ExtraProducts ==
    {p \in 1 .. NBase : BaseProfit(p) \in {-(TopN - 1), -1, 0, 1, TopN - 1}}
        \cup ((NBase + 1) .. (NBase + MaxExtra))

\* further rows (the grouped sums do not depend on the order of the rows, so
\* one order is taken)
ExtraRows ==
    {s \in SeqsUpTo(ExtraProducts \X {-1, 0, 1}, MaxExtra) :
        \A i \in 1 .. (Len(s) - 1) :
            \/ s[i][1] < s[i + 1][1]
            \/ s[i][1] = s[i + 1][1] /\ s[i][2] <= s[i + 1][2]}

RankingTables ==
    {Table(Required, BaseRows \o [i \in DOMAIN s |-> RankingRow(s[i][1], s[i][2])]) :
        s \in ExtraRows}

InitRanking ==
    /\ pc = "charts"
    /\ filtered_df \in RankingTables
    /\ df = filtered_df
    /\ uploaded_file = Xlsx(df)
    /\ validation = validate_dataset(df)
    /\ errors = {}
    /\ exception = "none"
    /\ stages = <<"filter", "kpis">>
    /\ PROPHET_AVAILABLE = TRUE
    /\ PLOTLY_AVAILABLE = TRUE
    /\ date_range = <<DateOf(FirstTs), DateOf(FirstTs)>>
    /\ categories = {Furniture}
    /\ kpis = calculate_kpis(filtered_df)
    /\ view_type = "none"
    /\ product_analysis = <<>>
    /\ top_products = <<>>
    /\ forecast = NoForecast
    /\ insights = NoInsights
    /\ export = NoExport

NextRanking == Charts

SpecRanking == InitRanking /\ [][NextRanking]_vars

Keys(frame) == {frame[i].key : i \in DOMAIN frame}
Values(frame) == {frame[i].value : i \in DOMAIN frame}

\* the products of the two views of the same product_analysis: the one the
\* radio button selected as shown, the other one as the code would compute it
TopView == IF view_type = "Top 10 Profitable" THEN top_products
           ELSE nlargest(TopN, product_analysis)
BottomView == IF view_type = "Bottom 10 Products" THEN top_products
              ELSE nsmallest(TopN, product_analysis)

\* the k-th smallest and the k-th largest of the per-product sums
KthSmallest(frame, k) ==
    CHOOSE v \in Values(frame) :
        /\ Cardinality({i \in DOMAIN frame : frame[i].value < v}) < k
        /\ Cardinality({i \in DOMAIN frame : frame[i].value <= v}) >= k
KthLargest(frame, k) ==
    CHOOSE v \in Values(frame) :
        /\ Cardinality({i \in DOMAIN frame : frame[i].value > v}) < k
        /\ Cardinality({i \in DOMAIN frame : frame[i].value >= v}) >= k

\* C10 as stated: with at least 20 distinct products the top 10 and the
\* bottom 10 by profit share no product, equal profit sums included.
C10_TopBottomDisjoint ==
    (Did("charts") /\ Len(product_analysis) >= 2 * TopN)
        => Keys(TopView) \cap Keys(BottomView) = {}

\* C10 amended: with at least 20 distinct products the two views share no
\* product whenever the 10th smallest profit sum is below the 10th largest
\* (equal sums elsewhere allowed); when these two are equal they share one.
C10_DisjointUnlessBoundaryTie ==
    (Did("charts") /\ Len(product_analysis) >= 2 * TopN)
        => /\ Len(TopView) = TopN /\ Len(BottomView) = TopN
           /\ (Keys(TopView) \cap Keys(BottomView) = {})
                <=> (KthSmallest(product_analysis, TopN) < KthLargest(product_analysis, TopN))

\* twenty products or more, two of them with equal sums inside one view, and
\* the views disjoint
C10_Witness ==
    /\ Did("charts") /\ Len(product_analysis) >= 2 * TopN
    /\ view_type = "Top 10 Profitable"
    /\ \E i, j \in DOMAIN top_products :
          i # j /\ top_products[i].value = top_products[j].value
    /\ Keys(TopView) \cap Keys(BottomView) = {}

\* C11: the CSV offered for download has exactly one row per filtered
\* transaction, and its rows are sorted by Order Date descending: of any two
\* consecutive rows the earlier one's Order Date is >= the later one's.
C11_CsvSortedDescending ==
    export.offered =>
        /\ Len(export.csv) = Len(filtered_df.rows)
        /\ \A r \in Range(filtered_df.rows) :
              Cardinality({i \in DOMAIN export.csv : export.csv[i] = r})
                  = Cardinality({i \in DOMAIN filtered_df.rows : filtered_df.rows[i] = r})
        /\ \A i \in 1 .. (Len(export.csv) - 1) :
              export.csv[i]["Order Date"].v >= export.csv[i + 1]["Order Date"].v

\* C12: whenever validate_dataset answers True for a table, every row of the
\* table has a non-null value in each of the nine required columns.
C12_ValidatedRowsNonNull ==
    (Loaded /\ validation.ok) =>
        \A i \in DOMAIN uploaded_file.table.rows :
            \A col \in Required : ~IsNull(uploaded_file.table.rows[i][col])

====
